---- MODULE Spec2Model ----
(***************************************************************************)
(* Model of copy-photo.py: the pipeline main() runs (mount resolution,     *)
(* source discovery, date derivation, destination setup, copy, verify)     *)
(* over a small filesystem.                                                *)
(*                                                                         *)
(* A name is a sequence of one-token strings (<<"a", ".", "J">> is the     *)
(* file name a.J), a path is a sequence of names, and the filesystem is a  *)
(* sequence of entries whose order is the order in which the operating     *)
(* system lists them (os.scandir order, which is not sorted).              *)
(***************************************************************************)
EXTENDS Integers, Sequences, FiniteSets, TLC

VARIABLES
    config,        \* the loaded configuration (load_config's result)
    args,          \* the parsed command line: name, label, user, no_verify
    mounts,        \* the paths that are active mount points
    fs,            \* the filesystem: sequence of entries, in listing order
    pc,            \* position of main()
    mount_point,   \* main's local mount_point
    photo_dirs,    \* main's local photo_dirs
    date_str,      \* main's local date_str
    dest_dir,      \* main's local dest_dir
    all_files,     \* copy_with_progress's local all_files
    idx,           \* position of copy_with_progress's copy loop in all_files
    attempts,      \* the files shutil.copy2 was called on, in call order
    failed,        \* the positions of all_files whose copy raised
    copy_success,  \* main's local copy_success
    verify,        \* what verify_copy computed and returned, once it ran
    warnings,      \* the warnings verify_copy printed
    truncated,     \* the destination file an outside process truncated
    dest_before,   \* what the destination held when the copy began
    steps,         \* the functions main() has called, in call order
    error,         \* the exception that reached main's handler
    exit_code      \* the process's exit status, -1 while it runs

vars == <<config, args, mounts, fs, pc, mount_point, photo_dirs, date_str,
          dest_dir, all_files, idx, attempts, failed, copy_success, verify,
          warnings, truncated, dest_before, steps, error, exit_code>>

(***************************************************************************)
(* Bounds of the model.                                                    *)
(***************************************************************************)
\* Largest file size, in bytes.
MaxSize == 2
\* Largest number of per-file copies that fail in one run.
MaxFailures == 1
\* Largest number of mount templates in a configuration.
MaxMountPatterns == 2
\* Largest number of source patterns in a configuration.
MaxSourcePatterns == 2
\* Largest last-modified timestamp, in ticks.
MaxTime == 4

\* Ticks of the clock per calendar day: strftime("%Y%m%d") drops the time
\* of day.
TicksPerDay == 2

(***************************************************************************)
(* Strings: str.lower, str.endswith, str.format.                           *)
(***************************************************************************)
UpperCase == <<"A", "B", "J", "R", "T">>
LowerCase == <<"a", "b", "j", "r", "t">>

\* str.lower on one character.
LowerChar(c) ==
    IF \E i \in 1..Len(UpperCase) : UpperCase[i] = c
    THEN LowerCase[CHOOSE i \in 1..Len(UpperCase) : UpperCase[i] = c]
    ELSE c

\* str.lower
lower(s) == [i \in 1..Len(s) |-> LowerChar(s[i])]

\* str.endswith with one suffix
endswith1(s, suffix) ==
    /\ Len(suffix) <= Len(s)
    /\ SubSeq(s, Len(s) - Len(suffix) + 1, Len(s)) = suffix

\* str.endswith with a tuple of suffixes
endswith(s, suffixes) ==
    \E i \in 1..Len(suffixes) : endswith1(s, suffixes[i])

\* tuple(ext.lower() for ext in extensions)
lower_extensions(extensions) ==
    [i \in 1..Len(extensions) |-> lower(extensions[i])]

\* str.format on one name: every placeholder token is replaced by its value;
\* subst maps a placeholder to its value.
format_name(name, subst) ==
    [j \in 1..Len(name) |->
        IF name[j] \in DOMAIN subst THEN subst[name[j]] ELSE name[j]]

\* str.format on a path template: the placeholders of every component.
format(template, subst) ==
    [i \in 1..Len(template) |-> format_name(template[i], subst)]

(***************************************************************************)
(* Paths and the filesystem.                                               *)
(***************************************************************************)
\* os.path.join(a, b) for a relative b
join(a, b) == a \o b

dirname(p) == SubSeq(p, 1, Len(p) - 1)

basename(p) == p[Len(p)]

IsPrefix(d, p) == Len(d) <= Len(p) /\ SubSeq(p, 1, Len(d)) = d

exists(f, p) == \E i \in 1..Len(f) : f[i].path = p

entry(f, p) == f[CHOOSE i \in 1..Len(f) : f[i].path = p]

\* os.path.isdir
isdir(f, p) == exists(f, p) /\ entry(f, p).kind = "dir"

\* os.path.ismount
ismount(p) == p \in mounts

\* os.path.getsize
getsize(f, p) == entry(f, p).size

\* os.path.getmtime
getmtime(f, p) == entry(f, p).mtime

\* The entries of directory d of the given kind, in listing order.
listdir(f, d, kind) ==
    SelectSeq(f, LAMBDA e : e.kind = kind /\ Len(e.path) = Len(d) + 1
                            /\ dirname(e.path) = d)

RECURSIVE Concat(_)
\* The concatenation of a sequence of sequences.
Concat(ss) == IF ss = <<>> THEN <<>> ELSE Head(ss) \o Concat(Tail(ss))

RECURSIVE os_walk(_, _)
\* os.walk(top), top-down: the (root, files) pair of top, then the walk of
\* each subdirectory in listing order.  Nothing for a top that is no
\* directory.
os_walk(f, top) ==
    IF ~isdir(f, top) THEN <<>>
    ELSE LET files == listdir(f, top, "file")
             dirs == listdir(f, top, "dir")
         IN <<[root |-> top,
               files |-> [i \in 1..Len(files) |-> basename(files[i].path)]]>>
            \o Concat([i \in 1..Len(dirs) |-> os_walk(f, dirs[i].path)])

\* The loop nest shared by get_earliest_photo_date, get_files_info and
\* copy_with_progress: for every directory, for every (root, files) of its
\* walk, for every file whose lowered name ends with one of the (lowered)
\* extensions: os.path.join(root, file).
matching_files(f, directories, extensions) ==
    LET of_root(w) ==
            LET sel == SelectSeq(w.files,
                           LAMBDA file : endswith(lower(file), extensions))
            IN [i \in 1..Len(sel) |-> join(w.root, <<sel[i]>>)]
        of_dir(d) ==
            LET ws == os_walk(f, d)
            IN Concat([i \in 1..Len(ws) |-> of_root(ws[i])])
    IN Concat([i \in 1..Len(directories) |-> of_dir(directories[i])])

(***************************************************************************)
(* The functions of copy-photo.py.  A function that can raise returns      *)
(* [ok |-> TRUE, value |-> v] or [ok |-> FALSE, value |-> the empty value].*)
(***************************************************************************)
RECURSIVE find_mount_point_from(_, _, _, _)
\* The loop of find_mount_point from template i on.
find_mount_point_from(patterns, i, label, user) ==
    IF i > Len(patterns)
    THEN [ok |-> FALSE, value |-> <<>>]
    ELSE LET candidate == format(patterns[i],
                                 [t \in {"{user}", "{label}"} |->
                                     IF t = "{user}" THEN user ELSE label])
         IN IF ismount(candidate)
            THEN [ok |-> TRUE, value |-> candidate]
            ELSE find_mount_point_from(patterns, i + 1, label, user)

RECURSIVE last_mount_point_from(_, _, _, _)
\* Variant of find_mount_point_from: the search goes on after a match, so
\* the last active candidate wins.
last_mount_point_from(patterns, i, label, user) ==
    IF i > Len(patterns)
    THEN [ok |-> FALSE, value |-> <<>>]
    ELSE LET candidate == format(patterns[i],
                                 [t \in {"{user}", "{label}"} |->
                                     IF t = "{user}" THEN user ELSE label])
             later == last_mount_point_from(patterns, i + 1, label, user)
         IN IF later.ok THEN later
            ELSE IF ismount(candidate)
                 THEN [ok |-> TRUE, value |-> candidate]
                 ELSE later

\* Variant of find_mount_point: last match wins.
find_mount_point_LastMatch(cfg, label, user) ==
    last_mount_point_from(cfg.mount_patterns, 1, label, user)

find_mount_point(cfg, label, user) ==
    find_mount_point_from(cfg.mount_patterns, 1, label, user)

\* The wildcard component of a glob pattern.
Wildcard == <<"*">>

RECURSIVE glob_in(_, _, _)
\* glob.glob of the pattern components segs below base: a literal component
\* names one entry, a wildcard lists the entries of the directory that do
\* not start with a dot (only the directories when components remain), in
\* listing order.  The matches are the paths that exist.
glob_in(f, base, segs) ==
    IF segs = <<>>
    THEN IF exists(f, base) THEN <<base>> ELSE <<>>
    ELSE IF Head(segs) = Wildcard
         THEN LET kids == SelectSeq(f, LAMBDA e :
                              /\ Len(e.path) = Len(base) + 1
                              /\ dirname(e.path) = base
                              /\ basename(e.path)[1] # "."
                              /\ (Len(segs) > 1 => e.kind = "dir"))
              IN Concat([i \in 1..Len(kids) |->
                            glob_in(f, kids[i].path, Tail(segs))])
         ELSE glob_in(f, join(base, <<Head(segs)>>), Tail(segs))

\* glob.glob(os.path.join(mount_point, pattern))
glob(f, mp, pattern) == glob_in(f, mp, pattern)

RECURSIVE keep_dirs(_, _, _)
\* The inner loop of find_photo_directories: every match that is a
\* directory is appended to photo_dirs.
keep_dirs(f, matched_dirs, dirs) ==
    IF matched_dirs = <<>> THEN dirs
    ELSE keep_dirs(f, Tail(matched_dirs),
                   IF isdir(f, Head(matched_dirs))
                   THEN Append(dirs, Head(matched_dirs))
                   ELSE dirs)

RECURSIVE scan_patterns(_, _, _, _)
\* The outer loop of find_photo_directories, over the patterns.
scan_patterns(f, mp, patterns, dirs) ==
    IF patterns = <<>> THEN dirs
    ELSE scan_patterns(f, mp, Tail(patterns),
                       keep_dirs(f, glob(f, mp, Head(patterns)), dirs))

\* Variant of find_photo_directories: every glob match is kept, directory
\* or not.
find_photo_directories_NoFilter(f, mp, source_patterns) ==
    LET dirs == Concat([i \in 1..Len(source_patterns) |->
                           glob(f, mp, source_patterns[i])])
    IN IF dirs = <<>>
       THEN [ok |-> FALSE, value |-> <<>>]
       ELSE [ok |-> TRUE, value |-> dirs]

find_photo_directories(f, mp, source_patterns) ==
    LET dirs == scan_patterns(f, mp, source_patterns, <<>>)
    IN IF dirs = <<>>
       THEN [ok |-> FALSE, value |-> <<>>]
       ELSE [ok |-> TRUE, value |-> dirs]

\* datetime.fromtimestamp: the calendar day and the time of day.
fromtimestamp(ts) == [day |-> ts \div TicksPerDay, tod |-> ts % TicksPerDay]

\* datetime's < .
datetime_less(a, b) == a.day < b.day \/ (a.day = b.day /\ a.tod < b.tod)

Digits == <<"0", "1", "2", "3", "4", "5", "6", "7", "8", "9">>

\* strftime("%Y%m%d"); day 0 is 2024-01-01.
strftime(dt) ==
    "202401" \o Digits[((dt.day + 1) \div 10) + 1]
             \o Digits[((dt.day + 1) % 10) + 1]

RECURSIVE earliest_from(_, _, _)
\* The loop of get_earliest_photo_date over the matching files; earliest is
\* <<>> for None.
earliest_from(f, files, earliest) ==
    IF files = <<>> THEN earliest
    ELSE LET file_date == fromtimestamp(getmtime(f, Head(files)))
         IN earliest_from(f, Tail(files),
                IF earliest = <<>> \/ datetime_less(file_date, earliest[1])
                THEN <<file_date>>
                ELSE earliest)

\* Variant of get_earliest_photo_date: the extension filter is missing, every
\* file counts.
get_earliest_photo_date_AnyFile(f, dirs, extensions) ==
    LET earliest_date ==
            earliest_from(f, matching_files(f, dirs, << <<>> >>), <<>>)
    IN IF earliest_date = <<>>
       THEN [ok |-> FALSE, value |-> ""]
       ELSE [ok |-> TRUE, value |-> strftime(earliest_date[1])]

get_earliest_photo_date(f, dirs, extensions) ==
    LET earliest_date ==
            earliest_from(f, matching_files(f, dirs,
                                 lower_extensions(extensions)), <<>>)
    IN IF earliest_date = <<>>
       THEN [ok |-> FALSE, value |-> ""]
       ELSE [ok |-> TRUE, value |-> strftime(earliest_date[1])]

RECURSIVE total_size_of(_, _)
\* total_size += os.path.getsize(file_path), over the matching files.
total_size_of(f, files) ==
    IF files = <<>> THEN 0
    ELSE getsize(f, Head(files)) + total_size_of(f, Tail(files))

get_files_info(f, directories, extensions) ==
    LET files == matching_files(f, directories, lower_extensions(extensions))
    IN [file_count |-> Len(files), total_size |-> total_size_of(f, files)]

\* Variant of verify_copy: only the counts are compared.
verify_copy_CountOnly(f, source_dirs, dest, extensions) ==
    LET src == get_files_info(f, source_dirs, extensions)
        dst == get_files_info(f, <<dest>>, extensions)
        info == [ran |-> TRUE,
                 src_count |-> src.file_count, src_size |-> src.total_size,
                 dst_count |-> dst.file_count, dst_size |-> dst.total_size]
    IN IF src.file_count # dst.file_count
       THEN [result |-> FALSE, warnings |-> <<"count_mismatch">>,
             info |-> info]
       ELSE [result |-> TRUE, warnings |-> <<>>, info |-> info]

\* Variant of verify_copy: both comparisons are made before it returns, so
\* both warnings can be printed.
verify_copy_BothWarnings(f, source_dirs, dest, extensions) ==
    LET src == get_files_info(f, source_dirs, extensions)
        dst == get_files_info(f, <<dest>>, extensions)
        info == [ran |-> TRUE,
                 src_count |-> src.file_count, src_size |-> src.total_size,
                 dst_count |-> dst.file_count, dst_size |-> dst.total_size]
        w == (IF src.file_count # dst.file_count
              THEN <<"count_mismatch">> ELSE <<>>)
             \o (IF src.total_size # dst.total_size
                 THEN <<"size_mismatch">> ELSE <<>>)
    IN [result |-> (w = <<>>), warnings |-> w, info |-> info]

verify_copy(f, source_dirs, dest, extensions) ==
    LET src == get_files_info(f, source_dirs, extensions)
        dst == get_files_info(f, <<dest>>, extensions)
        info == [ran |-> TRUE,
                 src_count |-> src.file_count, src_size |-> src.total_size,
                 dst_count |-> dst.file_count, dst_size |-> dst.total_size]
    IN IF src.file_count # dst.file_count
       THEN [result |-> FALSE, warnings |-> <<"count_mismatch">>,
             info |-> info]
       ELSE IF src.total_size # dst.total_size
            THEN [result |-> FALSE, warnings |-> <<"size_mismatch">>,
                  info |-> info]
            ELSE [result |-> TRUE, warnings |-> <<>>, info |-> info]

\* Variant of enumerate_files: the file names are not lowered before the
\* comparison.
enumerate_files_CaseSensitive(f, source_dirs, extensions) ==
    LET exts == lower_extensions(extensions)
        found == matching_files(f, source_dirs, exts)
    IN SelectSeq(found, LAMBDA p : endswith(basename(p), exts))

\* The files copy_with_progress enumerates.
enumerate_files(f, source_dirs, extensions) ==
    matching_files(f, source_dirs, lower_extensions(extensions))

\* The time at which the run writes files: after every photo was taken.
Now == MaxTime

\* Variant of write_file: an existing file is left as it is.
write_file_KeepExisting(f, dst, size, mtime, data) ==
    IF exists(f, dst) THEN f
    ELSE Append(f, [path |-> dst, kind |-> "file", size |-> size,
                    mtime |-> mtime, data |-> data])

\* The file dst holds size bytes of the content data: an existing file is
\* overwritten in place, a new one is listed last.
write_file(f, dst, size, mtime, data) ==
    LET e == [path |-> dst, kind |-> "file", size |-> size,
              mtime |-> mtime, data |-> data]
    IN IF exists(f, dst)
       THEN [i \in 1..Len(f) |-> IF f[i].path = dst THEN e ELSE f[i]]
       ELSE Append(f, e)

\* The ways shutil.copy2 can end on a file of the given size: it returns,
\* or it raises before the destination is opened, or it raises after n
\* bytes were written to the destination.
CopyOutcomes(size) ==
    {[kind |-> "ok", n |-> size], [kind |-> "unread", n |-> 0]}
    \cup {[kind |-> "partial", n |-> n] : n \in 0..size}

\* shutil.copy2(file, dest) for a directory dest: the destination is the
\* file's base name inside dest; content, and on success the timestamp, are
\* the source's.
copy2(f, file, dest, outcome) ==
    LET src == entry(f, file)
        dst == join(dest, <<basename(file)>>)
    IN CASE outcome.kind = "ok" ->
                write_file(f, dst, src.size, src.mtime, src.data)
         [] outcome.kind = "partial" ->
                write_file(f, dst, outcome.n, Now, src.data)
         [] OTHER -> f

\* os.makedirs(path, exist_ok=True): every missing ancestor, then path.
makedirs(f, path) ==
    LET prefixes == [k \in 1..Len(path) |-> SubSeq(path, 1, k)]
        missing == SelectSeq(prefixes, LAMBDA p : ~exists(f, p))
    IN f \o [i \in 1..Len(missing) |->
                [path |-> missing[i], kind |-> "dir", size |-> 0,
                 mtime |-> 0, data |-> ""]]

RECURSIVE make_subfolders(_, _, _)
\* The loop of setup_destination over the subfolders.
make_subfolders(f, dest_path, subfolders) ==
    IF subfolders = <<>> THEN f
    ELSE make_subfolders(makedirs(f, join(dest_path, Head(subfolders))),
                         dest_path, Tail(subfolders))

setup_destination(f, dest_path, subfolders) ==
    make_subfolders(makedirs(f, dest_path), dest_path, subfolders)

\* os.path.expanduser("~")
Home == << <<"home">> >>

\* config["destination_template"].format(date=date_str, name=args.name)
\* under ~/Photos
destination(cfg, date, name) ==
    Home \o << <<"Photos">>,
               format_name(cfg.destination_template,
                           [t \in {"{date}", "{name}"} |->
                               IF t = "{date}" THEN date ELSE name]) >>

(***************************************************************************)
(* The inputs: configurations, command lines, mount tables, card contents. *)
(***************************************************************************)
\* DEFAULT_CONFIG's mount templates, and a third one a user may configure.
MediaTemplate == << <<"media">>, <<"{user}">>, <<"{label}">> >>
RunMediaTemplate == << <<"run">>, <<"media">>, <<"{user}">>, <<"{label}">> >>
MntTemplate == << <<"mnt">>, <<"{label}">> >>

MountTemplates == {MediaTemplate, RunMediaTemplate, MntTemplate}

\* The places a card can be mounted at.
MediaAlice == << <<"media">>, <<"alice">>, <<"EOS_DIGITAL">> >>
RunMediaAlice == << <<"run">>, <<"media">>, <<"alice">>, <<"EOS_DIGITAL">> >>
MntCard == << <<"mnt">>, <<"EOS_DIGITAL">> >>
MediaBob == << <<"media">>, <<"bob">>, <<"EOS_DIGITAL">> >>

\* Names on the card.
DCIM == <<"DCIM">>
Dir100 == <<"100CANON">>
Dir101 == <<"101CANON">>
SubDir == <<"s", ".", "j">>
HiddenDir == <<".", "t">>
PhotoA == <<"a", ".", "j">>
PhotoB == <<"b", ".", "J">>
Notes == <<"n", ".", "t">>
Readme == <<"r", "e">>
OldPhoto == <<"q", ".", "j">>

\* Glob patterns, relative to the mount point.
PatDcimAll == <<DCIM, Wildcard>>
PatDcim100 == <<DCIM, Dir100>>
PatAll == <<Wildcard>>
PatMisc == << <<"MISC">>, Wildcard >>
PatTwoLevels == <<Wildcard, Wildcard>>

SourcePatterns == {PatDcimAll, PatDcim100, PatAll, PatMisc, PatTwoLevels}

\* DEFAULT_CONFIG, with the extensions .j and .r standing for .jpg and .raw.
DEFAULT_CONFIG ==
    [mount_patterns |-> <<MediaTemplate, RunMediaTemplate>>,
     source_patterns |-> <<PatDcimAll>>,
     photo_extensions |-> << <<".", "j">>, <<".", "r">> >>,
     destination_template |-> <<"{date}", "-canon600d-", "{name}">>,
     subfolders |-> << << <<"selected">> >>,
                       << <<"selected">>, <<"exported">> >> >>]

\* The command line: name, --label and --user with their defaults,
\* --no-verify.
DefaultArgs(no_verify) ==
    [name |-> "trip", label |-> "EOS_DIGITAL", user |-> "alice",
     no_verify |-> no_verify]

Dir(path) ==
    [path |-> path, kind |-> "dir", size |-> 0, mtime |-> 0, data |-> ""]

File(path, size, mtime, data) ==
    [path |-> path, kind |-> "file", size |-> size, mtime |-> mtime,
     data |-> data]

Reverse(s) == [i \in 1..Len(s) |-> s[Len(s) + 1 - i]]

\* The file slots of a card; a card gives each slot a size, or -1 for a
\* file that is not there, and a timestamp.
FileSlots == {"f1", "f2", "f3", "f4", "f5", "f6"}

\* The directory slots of a card.
DirSlots == {"dcim", "d100", "d101", "sub", "hidden"}

\* The content of a card mounted at root: the directories in dirs, the files
\* sz gives a size to, listed in this order or (rev) in the opposite one.
\* An entry whose parent directory is missing is not there either.
Card(root, dirs, sz, mt, rev) ==
    LET d(id, path) ==
            [e |-> Dir(root \o path), there |-> id \in dirs]
        f(id, path) ==
            [e |-> File(root \o path, sz[id], mt[id], id),
             there |-> sz[id] >= 0]
        slots == << d("dcim", <<DCIM>>),
                    d("d100", <<DCIM, Dir100>>),
                    f("f1", <<DCIM, Dir100, PhotoA>>),
                    f("f2", <<DCIM, Dir100, PhotoB>>),
                    d("sub", <<DCIM, Dir100, SubDir>>),
                    f("f3", <<DCIM, Dir100, SubDir, PhotoA>>),
                    d("d101", <<DCIM, Dir101>>),
                    f("f4", <<DCIM, Dir101, PhotoA>>),
                    f("f5", <<DCIM, Dir101, Notes>>),
                    d("hidden", <<DCIM, HiddenDir>>),
                    f("f6", <<DCIM, Readme>>) >>
        present == SelectSeq(slots, LAMBDA s : s.there)
        entries == [i \in 1..Len(present) |-> present[i].e]
        rooted == SelectSeq(entries, LAMBDA e :
                      \A k \in (Len(root) + 1)..(Len(e.path) - 1) :
                          \E i \in 1..Len(entries) :
                              /\ entries[i].path = SubSeq(e.path, 1, k)
                              /\ entries[i].kind = "dir")
    IN IF rev THEN Reverse(rooted) ELSE rooted

\* The destination main computes for a card whose earliest photo is of day 0.
OldDest == destination(DEFAULT_CONFIG, "20240101", "trip")

\* What ~/Photos holds before the run: nothing; or the destination of an
\* earlier run with a photo named as one on the card; or with a photo in a
\* subfolder.
HomeContents(pre) ==
    CASE pre = "same" ->
            <<Dir(Home), Dir(Home \o << <<"Photos">> >>), Dir(OldDest),
              File(OldDest \o <<PhotoA>>, 1, 0, "old")>>
      [] pre = "other" ->
            <<Dir(Home), Dir(Home \o << <<"Photos">> >>), Dir(OldDest),
              Dir(OldDest \o << <<"selected">> >>),
              File(OldDest \o << <<"selected">>, OldPhoto >>, MaxSize, 0,
                   "old")>>
      [] OTHER -> <<Dir(Home)>>

AllDirs == {"dcim", "d100", "d101", "sub"}

\* A small card: photo a.j in 100CANON, notes and a stray file.
SmallSizes == [id \in FileSlots |->
                  IF id \in {"f1", "f5", "f6"} THEN 1 ELSE -1]

\* The timestamps of the pipeline's cards: the photos of 101CANON and of the
\* subdirectory are of day 0, those of 100CANON of day 1.
FixedTimes == [id \in FileSlots |->
                  CASE id = "f1" -> TicksPerDay + 1
                    [] id = "f2" -> TicksPerDay
                    [] id = "f3" -> 1
                    [] OTHER -> 0]

Scenario(cfg, a, m, f) == [config |-> cfg, args |-> a, mounts |-> m, fs |-> f]

\* Runs that end in each of main's ways: no mount; a mount without
\* photo directories; photo directories without photos; a copy with and
\* without verification.
BaseScenarios ==
    {Scenario(DEFAULT_CONFIG, DefaultArgs(FALSE), {}, HomeContents("none")),
     Scenario(DEFAULT_CONFIG, DefaultArgs(FALSE), {MediaAlice, RunMediaAlice},
              Card(RunMediaAlice, AllDirs, SmallSizes, FixedTimes, FALSE)
              \o HomeContents("none")),
     Scenario(DEFAULT_CONFIG, DefaultArgs(FALSE), {MediaAlice},
              Card(MediaAlice, AllDirs,
                   [id \in FileSlots |-> IF id = "f5" THEN 1 ELSE -1],
                   FixedTimes, FALSE)
              \o HomeContents("none")),
     Scenario(DEFAULT_CONFIG, DefaultArgs(TRUE), {MediaAlice},
              Card(MediaAlice, AllDirs, SmallSizes, FixedTimes, FALSE)
              \o HomeContents("none")),
     Scenario(DEFAULT_CONFIG, DefaultArgs(FALSE), {MediaAlice},
              Card(MediaAlice, AllDirs, SmallSizes, FixedTimes, FALSE)
              \o HomeContents("none"))}

\* The pipeline's cards: photos a.j of 100CANON and of 101CANON of every
\* size, b.J and the subdirectory's a.j there or not.
PipelineSizes ==
    {sz \in [FileSlots -> -1..MaxSize] :
        /\ sz["f2"] \in {-1, 1}
        /\ sz["f3"] \in {-1, 1}
        /\ sz["f5"] = 1
        /\ sz["f6"] = 1}

PipelineScenarios ==
    {Scenario([DEFAULT_CONFIG EXCEPT !.source_patterns = sp],
              DefaultArgs(FALSE), {MediaAlice},
              Card(MediaAlice, AllDirs, sz, FixedTimes, rev)
              \o HomeContents(pre)) :
        sp \in {<<PatDcimAll>>, <<PatDcimAll, PatDcim100>>},
        sz \in PipelineSizes,
        rev \in BOOLEAN,
        pre \in {"none", "same", "other"}}

NoVerify == [ran |-> FALSE, src_count |-> 0, src_size |-> 0,
             dst_count |-> 0, dst_size |-> 0, result |-> FALSE]

\* The state in which main enters its try block, for a set of scenarios.
InitOf(scenarios) ==
    /\ \E s \in scenarios :
          /\ config = s.config
          /\ args = s.args
          /\ mounts = s.mounts
          /\ fs = s.fs
    /\ pc = "find_mount"
    /\ mount_point = <<>>
    /\ photo_dirs = <<>>
    /\ date_str = ""
    /\ dest_dir = <<>>
    /\ all_files = <<>>
    /\ idx = 0
    /\ attempts = <<>>
    /\ failed = <<>>
    /\ copy_success = FALSE
    /\ verify = NoVerify
    /\ warnings = <<>>
    /\ truncated = <<>>
    /\ dest_before = [file_count |-> 0, total_size |-> 0]
    /\ steps = <<>>
    /\ error = "none"
    /\ exit_code = -1

Init == InitOf(BaseScenarios \cup PipelineScenarios)

(***************************************************************************)
(* main(), one action per call it makes.                                   *)
(***************************************************************************)
\* 1. mount_point = find_mount_point(config, args.label, args.user)
FindMountPoint ==
    /\ pc = "find_mount"
    /\ LET r == find_mount_point(config, args.label, args.user)
       IN /\ mount_point' = r.value
          /\ pc' = IF r.ok THEN "find_dirs" ELSE "except"
          /\ error' = IF r.ok THEN error ELSE "MountNotFound"
    /\ steps' = Append(steps, "find_mount_point")
    /\ UNCHANGED <<config, args, mounts, fs, photo_dirs, date_str, dest_dir,
                   all_files, idx, attempts, failed, copy_success, verify,
                   warnings, truncated, exit_code, dest_before>>

\* 2. photo_dirs = find_photo_directories(mount_point, source_patterns)
FindPhotoDirectories ==
    /\ pc = "find_dirs"
    /\ LET r == find_photo_directories(fs, mount_point,
                                       config.source_patterns)
       IN /\ photo_dirs' = r.value
          /\ pc' = IF r.ok THEN "get_date" ELSE "except"
          /\ error' = IF r.ok THEN error ELSE "NoPhotoDirectories"
    /\ steps' = Append(steps, "find_photo_directories")
    /\ UNCHANGED <<config, args, mounts, fs, mount_point, date_str, dest_dir,
                   all_files, idx, attempts, failed, copy_success, verify,
                   warnings, truncated, exit_code, dest_before>>

\* 3. date_str = get_earliest_photo_date(photo_dirs, photo_extensions)
GetEarliestPhotoDate ==
    /\ pc = "get_date"
    /\ LET r == get_earliest_photo_date(fs, photo_dirs,
                                        config.photo_extensions)
       IN /\ date_str' = r.value
          /\ pc' = IF r.ok THEN "setup" ELSE "except"
          /\ error' = IF r.ok THEN error ELSE "NoDatedFiles"
    /\ steps' = Append(steps, "get_earliest_photo_date")
    /\ UNCHANGED <<config, args, mounts, fs, mount_point, photo_dirs,
                   dest_dir, all_files, idx, attempts, failed, copy_success,
                   verify, warnings, truncated, exit_code, dest_before>>

\* 4. and 5. dest_dir is formatted; setup_destination(dest_dir, subfolders)
SetupDestination ==
    /\ pc = "setup"
    /\ dest_dir' = destination(config, date_str, args.name)
    /\ fs' = setup_destination(fs, dest_dir', config.subfolders)
    /\ pc' = "copy"
    /\ steps' = Append(steps, "setup_destination")
    /\ UNCHANGED <<config, args, mounts, mount_point, photo_dirs, date_str,
                   all_files, idx, attempts, failed, copy_success, verify,
                   warnings, truncated, error, exit_code, dest_before>>

\* The card is pulled out after the date was derived and before the files
\* are enumerated: its mount point and everything below it are gone.
Eject ==
    /\ pc = "copy"
    /\ mount_point \in mounts
    /\ mounts' = mounts \ {mount_point}
    /\ fs' = SelectSeq(fs, LAMBDA e : ~IsPrefix(mount_point, e.path))
    /\ UNCHANGED <<config, args, pc, mount_point, photo_dirs, date_str,
                   dest_dir, all_files, idx, attempts, failed, copy_success,
                   verify, warnings, truncated, steps, error, exit_code,
                   dest_before>>

\* 6. copy_with_progress, up to its copy loop: the files are enumerated;
\* with none it returns False.
CopyEnumerate ==
    /\ pc = "copy"
    /\ all_files' = enumerate_files(fs, photo_dirs, config.photo_extensions)
    /\ IF all_files' = <<>>
       THEN /\ copy_success' = FALSE
            /\ pc' = "copied"
            /\ idx' = idx
       ELSE /\ copy_success' = copy_success
            /\ pc' = "copying"
            /\ idx' = 1
    /\ steps' = Append(steps, "copy_with_progress")
    /\ dest_before' = get_files_info(fs, <<dest_dir>>,
                                     config.photo_extensions)
    /\ UNCHANGED <<config, args, mounts, fs, mount_point, photo_dirs,
                   date_str, dest_dir, attempts, failed, verify, warnings,
                   truncated, error, exit_code>>

\* Variant of CopyFile: the first copy that raises ends the loop.
CopyFile_AbortOnFailure ==
    /\ pc = "copying"
    /\ idx <= Len(all_files)
    /\ \E outcome \in CopyOutcomes(getsize(fs, all_files[idx])) :
          /\ outcome.kind # "ok" => Len(failed) < MaxFailures
          /\ fs' = copy2(fs, all_files[idx], dest_dir, outcome)
          /\ failed' = IF outcome.kind = "ok" THEN failed
                       ELSE Append(failed, idx)
          /\ idx' = IF outcome.kind = "ok" THEN idx + 1
                    ELSE Len(all_files) + 1
    /\ attempts' = Append(attempts, all_files[idx])
    /\ UNCHANGED <<config, args, mounts, pc, mount_point, photo_dirs,
                   date_str, dest_dir, all_files, copy_success, verify,
                   warnings, truncated, steps, error, exit_code, dest_before>>

\* One iteration of the copy loop: shutil.copy2 on the next file; an
\* exception is caught and logged.
CopyFile ==
    /\ pc = "copying"
    /\ idx <= Len(all_files)
    /\ \E outcome \in CopyOutcomes(getsize(fs, all_files[idx])) :
          /\ outcome.kind # "ok" => Len(failed) < MaxFailures
          /\ fs' = copy2(fs, all_files[idx], dest_dir, outcome)
          /\ failed' = IF outcome.kind = "ok" THEN failed
                       ELSE Append(failed, idx)
    /\ attempts' = Append(attempts, all_files[idx])
    /\ idx' = idx + 1
    /\ UNCHANGED <<config, args, mounts, pc, mount_point, photo_dirs,
                   date_str, dest_dir, all_files, copy_success, verify,
                   warnings, truncated, steps, error, exit_code, dest_before>>

\* The copy loop is over: copy_with_progress returns True.
CopyReturn ==
    /\ pc = "copying"
    /\ idx > Len(all_files)
    /\ copy_success' = TRUE
    /\ pc' = "copied"
    /\ UNCHANGED <<config, args, mounts, fs, mount_point, photo_dirs,
                   date_str, dest_dir, all_files, idx, attempts, failed,
                   verify, warnings, truncated, steps, error, exit_code,
                   dest_before>>

\* Another process truncates one file of the destination after the copy
\* and before the verification.
Truncate ==
    /\ pc = "copied"
    /\ copy_success
    /\ ~args.no_verify
    /\ truncated = <<>>
    /\ \E i \in 1..Len(fs) :
          /\ fs[i].kind = "file"
          /\ IsPrefix(dest_dir, fs[i].path)
          /\ \E n \in 0..(fs[i].size - 1) :
                /\ fs' = [fs EXCEPT ![i].size = n]
                /\ truncated' = <<[path |-> fs[i].path, old |-> fs[i].size,
                                   new |-> n]>>
    /\ UNCHANGED <<config, args, mounts, pc, mount_point, photo_dirs,
                   date_str, dest_dir, all_files, idx, attempts, failed,
                   copy_success, verify, warnings, steps, error, exit_code,
                   dest_before>>

\* Variant of VerifyCopy: the verification runs whatever the copy returned
\* and whatever the command line says.
VerifyCopy_Unconditional ==
    /\ pc = "copied"
    /\ LET v == verify_copy(fs, photo_dirs, dest_dir,
                            config.photo_extensions)
       IN /\ verify' = [ran |-> TRUE,
                        src_count |-> v.info.src_count,
                        src_size |-> v.info.src_size,
                        dst_count |-> v.info.dst_count,
                        dst_size |-> v.info.dst_size,
                        result |-> v.result]
          /\ warnings' = warnings \o v.warnings
    /\ pc' = "finish"
    /\ steps' = Append(steps, "verify_copy")
    /\ UNCHANGED <<config, args, mounts, fs, mount_point, photo_dirs,
                   date_str, dest_dir, all_files, idx, attempts, failed,
                   copy_success, truncated, error, exit_code, dest_before>>

\* 7. if copy_success and not args.no_verify: verify_copy(...)
VerifyCopy ==
    /\ pc = "copied"
    /\ copy_success /\ ~args.no_verify
    /\ LET v == verify_copy(fs, photo_dirs, dest_dir,
                            config.photo_extensions)
       IN /\ verify' = [ran |-> TRUE,
                        src_count |-> v.info.src_count,
                        src_size |-> v.info.src_size,
                        dst_count |-> v.info.dst_count,
                        dst_size |-> v.info.dst_size,
                        result |-> v.result]
          /\ warnings' = warnings \o v.warnings
    /\ pc' = "finish"
    /\ steps' = Append(steps, "verify_copy")
    /\ UNCHANGED <<config, args, mounts, fs, mount_point, photo_dirs,
                   date_str, dest_dir, all_files, idx, attempts, failed,
                   copy_success, truncated, error, exit_code, dest_before>>

\* 7. otherwise: the verification is skipped.
SkipVerify ==
    /\ pc = "copied"
    /\ ~(copy_success /\ ~args.no_verify)
    /\ pc' = "finish"
    /\ UNCHANGED <<config, args, mounts, fs, mount_point, photo_dirs,
                   date_str, dest_dir, all_files, idx, attempts, failed,
                   copy_success, verify, warnings, truncated, steps, error,
                   exit_code, dest_before>>

\* Variant of Finish: a failed verification makes the exit status 1.
Finish_StatusFromVerify ==
    /\ pc = "finish"
    /\ exit_code' = IF verify.ran /\ ~verify.result THEN 1 ELSE 0
    /\ pc' = "done"
    /\ UNCHANGED <<config, args, mounts, fs, mount_point, photo_dirs,
                   date_str, dest_dir, all_files, idx, attempts, failed,
                   copy_success, verify, warnings, truncated, steps, error,
                   dest_before>>

\* main returns: the process exits with status 0.
Finish ==
    /\ pc = "finish"
    /\ exit_code' = 0
    /\ pc' = "done"
    /\ UNCHANGED <<config, args, mounts, fs, mount_point, photo_dirs,
                   date_str, dest_dir, all_files, idx, attempts, failed,
                   copy_success, verify, warnings, truncated, steps, error,
                   dest_before>>

\* except Exception: the message goes to stderr, sys.exit(1).
HandleException ==
    /\ pc = "except"
    /\ exit_code' = 1
    /\ pc' = "done"
    /\ UNCHANGED <<config, args, mounts, fs, mount_point, photo_dirs,
                   date_str, dest_dir, all_files, idx, attempts, failed,
                   copy_success, verify, warnings, truncated, steps, error,
                   dest_before>>

Next ==
    \/ FindMountPoint
    \/ FindPhotoDirectories
    \/ GetEarliestPhotoDate
    \/ SetupDestination
    \/ Eject
    \/ CopyEnumerate
    \/ CopyFile
    \/ CopyReturn
    \/ Truncate
    \/ VerifyCopy
    \/ SkipVerify
    \/ Finish
    \/ HandleException

Spec == Init /\ [][Next]_vars

TypeOK ==
    /\ pc \in {"find_mount", "find_dirs", "get_date", "setup", "copy",
               "copying", "copied", "finish", "except", "done"}
    /\ exit_code \in {-1, 0, 1}
    /\ \A i, j \in 1..Len(fs) : fs[i].path = fs[j].path => i = j

(***************************************************************************)
(* Definitions the properties are stated with.  They describe the          *)
(* filesystem by sets of entries, not by a walk.                           *)
(***************************************************************************)
\* The name ends with one of the extensions, letter case ignored.
HasExtension(name, extensions) ==
    \E i \in 1..Len(extensions) : \E k \in 0..Len(name) :
        /\ Len(name) - k = Len(extensions[i])
        /\ \A j \in 1..Len(extensions[i]) :
              LowerChar(name[k + j]) = LowerChar(extensions[i][j])

\* The indices of the matching files somewhere below directory d.
PhotosBelow(d) ==
    {i \in 1..Len(fs) :
        /\ fs[i].kind = "file"
        /\ Len(fs[i].path) > Len(d)
        /\ IsPrefix(d, fs[i].path)
        /\ HasExtension(basename(fs[i].path), config.photo_extensions)}

RECURSIVE SumOfSizes(_)
SumOfSizes(S) ==
    IF S = {} THEN 0
    ELSE LET i == CHOOSE j \in S : TRUE
         IN fs[i].size + SumOfSizes(S \ {i})

RECURSIVE SumOver(_, _, _)
\* The sum of F(dirs[k]) for k from i on.
SumOver(F(_), dirs, i) ==
    IF i > Len(dirs) THEN 0 ELSE F(dirs[i]) + SumOver(F, dirs, i + 1)

\* The number and the bytes of the matching files found below the
\* directories, a directory listed twice counting twice.
CountBelow(dirs) == SumOver(LAMBDA d : Cardinality(PhotosBelow(d)), dirs, 1)
BytesBelow(dirs) == SumOver(LAMBDA d : SumOfSizes(PhotosBelow(d)), dirs, 1)

\* copy_with_progress has returned.
CopyReturned == pc \in {"copied", "finish", "done"} /\ Len(steps) >= 5

\* The last position of all_files that holds a file of the base name of
\* position i.
LastOfName(i) ==
    CHOOSE j \in i..Len(all_files) :
        /\ basename(all_files[j]) = basename(all_files[i])
        /\ \A k \in (j + 1)..Len(all_files) :
              basename(all_files[k]) # basename(all_files[i])

\* No two enumerated files share a base name.
DistinctBaseNames ==
    \A i, j \in 1..Len(all_files) :
        basename(all_files[i]) = basename(all_files[j]) => i = j

RECURSIVE CopiedBytes(_)
\* The bytes of the first n enumerated files.
CopiedBytes(n) ==
    IF n = 0 THEN 0 ELSE getsize(fs, all_files[n]) + CopiedBytes(n - 1)

(***************************************************************************)
(* Properties of the copy and of its verification.                         *)
(***************************************************************************)
\* The copy the verification followed was of N files of S bytes, into a
\* destination without matching files, every per-file copy succeeded, and
\* nothing touched the destination in between.
RoundTripCase ==
    /\ verify.ran
    /\ dest_before.file_count = 0
    /\ failed = <<>>
    /\ truncated = <<>>

\* verify_copy computed N files and S bytes on both sides and returned True.
RoundTripHolds ==
    /\ verify.src_count = Len(all_files)
    /\ verify.dst_count = Len(all_files)
    /\ verify.src_size = CopiedBytes(Len(all_files))
    /\ verify.dst_size = CopiedBytes(Len(all_files))
    /\ verify.result

\* C1, as stated: whenever copy_with_progress copied N matching files of S
\* bytes in all into a destination that held no matching file, every
\* per-file copy succeeding, the verify_copy that follows computes count N
\* and size S for the source and for the destination and returns true.
C1_RoundTrip_AsStated == RoundTripCase => RoundTripHolds

\* C1, amended: the same, for a copy whose enumerated files have pairwise
\* distinct base names.
C1_RoundTrip == (RoundTripCase /\ DistinctBaseNames) => RoundTripHolds

\* A round trip of two files in different directories.
C1_Witness ==
    /\ RoundTripCase
    /\ DistinctBaseNames
    /\ Len(all_files) >= 2
    /\ \E i, j \in 1..Len(all_files) :
          dirname(all_files[i]) # dirname(all_files[j])
    /\ verify.result

\* The destination file that was truncated is a matching file, and before
\* its truncation the destination matched the source in count and bytes.
TruncatedAfterCompleteCopy ==
    /\ verify.ran
    /\ truncated # <<>>
    /\ HasExtension(basename(truncated[1].path), config.photo_extensions)
    /\ CountBelow(photo_dirs) = CountBelow(<<dest_dir>>)
    /\ BytesBelow(photo_dirs)
         = BytesBelow(<<dest_dir>>) + truncated[1].old - truncated[1].new

\* C2: verify_copy returns true iff the number of matching files below the
\* source directories equals the number below the destination and the two
\* byte totals are equal; after the truncation of one destination file of a
\* complete copy it returns false, and copy_with_progress's result is still
\* true.
C2_VerifyIffCountAndSizeMatch ==
    verify.ran =>
        /\ verify.result
             = (/\ CountBelow(photo_dirs) = CountBelow(<<dest_dir>>)
                /\ BytesBelow(photo_dirs) = BytesBelow(<<dest_dir>>))
        /\ verify.src_count = CountBelow(photo_dirs)
        /\ verify.dst_count = CountBelow(<<dest_dir>>)
        /\ verify.src_size = BytesBelow(photo_dirs)
        /\ verify.dst_size = BytesBelow(<<dest_dir>>)
        /\ TruncatedAfterCompleteCopy => (~verify.result /\ copy_success)

\* A truncation after a complete copy was detected.
C2_Witness ==
    /\ TruncatedAfterCompleteCopy
    /\ ~verify.result
    /\ copy_success
    /\ verify.src_count = verify.dst_count

\* C3: every enumerated file is attempted exactly once, in enumeration
\* order, whatever copies fail; no failure reaches the caller; the result
\* is false when no file was enumerated, and then nothing was attempted,
\* and true otherwise.
C3_PartialFailureTolerant ==
    /\ pc = "copying" =>
          /\ attempts = SubSeq(all_files, 1, idx - 1)
          /\ error = "none"
    /\ CopyReturned =>
          /\ attempts = all_files
          /\ {all_files[i] : i \in 1..Len(all_files)}
               = UNION {{fs[i].path : i \in PhotosBelow(photo_dirs[k])} :
                           k \in 1..Len(photo_dirs)}
          /\ Len(all_files) = CountBelow(photo_dirs)
          /\ \A k \in 1..Len(failed) : failed[k] \in 1..Len(all_files)
          /\ copy_success = (Len(all_files) > 0)
          /\ error = "none"

\* A copy failed, the files after it were attempted, the result is true.
C3_Witness ==
    /\ CopyReturned
    /\ failed # <<>>
    /\ failed[1] < Len(all_files)
    /\ attempts = all_files
    /\ copy_success

\* copy_with_progress has returned from its copy loop and nothing has
\* touched the destination since.
AfterCopy == CopyReturned /\ all_files # <<>> /\ truncated = <<>>

\* Every copied file lies directly in the destination directory.
Flattened ==
    \A i \in 1..Len(fs) :
        (fs[i].kind = "file" /\ IsPrefix(dest_dir, fs[i].path)
             /\ fs[i].data # "old")
        => dirname(fs[i].path) = dest_dir

\* The destination's file of the base name of all_files[i] has the content
\* of all_files[j].
HoldsContentOf(i, j) ==
    LET dst == join(dest_dir, <<basename(all_files[i])>>)
    IN /\ exists(fs, dst)
       /\ entry(fs, dst).kind = "file"
       /\ entry(fs, dst).data = entry(fs, all_files[j]).data
       /\ entry(fs, dst).size = entry(fs, all_files[j]).size

\* C4: the copy flattens the source tree: every copied file lies directly
\* in the destination directory under its base name, the copy returns true
\* without an error, and after it the destination's file of a base name has
\* the content of the last enumerated file of that name, which overwrote
\* the earlier ones
\* (the last file's own copy having raised nothing: a copy that raises is
\* C3's case and can leave the earlier content or a partial file).
C4_Flattened ==
    AfterCopy =>
        /\ copy_success
        /\ error = "none"
        /\ Flattened
        /\ \A i \in 1..Len(all_files) :
              (\A k \in 1..Len(failed) : failed[k] # LastOfName(i))
              => HoldsContentOf(i, LastOfName(i))

\* Two files of one base name, of different sizes, were both copied without
\* failure; the destination holds the later one.
C4_Witness ==
    /\ AfterCopy
    /\ copy_success
    /\ failed = <<>>
    /\ \E i, j \in 1..Len(all_files) :
          /\ i < j
          /\ j = LastOfName(i)
          /\ dirname(all_files[i]) # dirname(all_files[j])
          /\ getsize(fs, all_files[i]) # getsize(fs, all_files[j])
          /\ HoldsContentOf(i, j)

\* C5: the exit status is 1 exactly in the runs in which no mount was
\* found, no photo directory was found or no dated file was found, and 0 in
\* every other run, whatever verify_copy returned and whatever copies
\* failed.
C5_ExitStatus ==
    pc = "done" =>
        /\ exit_code \in {0, 1}
        /\ exit_code = 1
             <=> (mount_point = <<>> \/ photo_dirs = <<>> \/ date_str = "")
        /\ exit_code = 1 <=> error # "none"

\* A run with a failed copy and a failed verification ended with status 0.
C5_Witness ==
    /\ pc = "done"
    /\ exit_code = 0
    /\ failed # <<>>
    /\ verify.ran
    /\ ~verify.result

\* C9, as stated: the count warning is printed whenever the counts differ
\* and the size warning whenever the byte totals differ, both when both
\* differ.
C9_IndependentWarnings_AsStated ==
    verify.ran =>
        /\ (\E i \in 1..Len(warnings) : warnings[i] = "count_mismatch")
             <=> verify.src_count # verify.dst_count
        /\ (\E i \in 1..Len(warnings) : warnings[i] = "size_mismatch")
             <=> verify.src_size # verify.dst_size

\* C9, amended: the count warning is printed whenever the counts differ,
\* and then verify_copy returns false without comparing the sizes; the size
\* warning is printed whenever the counts are equal and the byte totals
\* differ.  One warning at most is printed, and false is returned exactly
\* when one is.
C9_FirstMismatchOnly ==
    verify.ran =>
        /\ warnings = IF verify.src_count # verify.dst_count
                      THEN <<"count_mismatch">>
                      ELSE IF verify.src_size # verify.dst_size
                           THEN <<"size_mismatch">>
                           ELSE <<>>
        /\ verify.result = (warnings = <<>>)

\* Counts and sizes both differed and only the count warning was printed.
C9_Witness ==
    /\ verify.ran
    /\ verify.src_count # verify.dst_count
    /\ verify.src_size # verify.dst_size
    /\ warnings = <<"count_mismatch">>
    /\ ~verify.result

\* The calls of main, in program order.
MainOrder ==
    <<"find_mount_point", "find_photo_directories", "get_earliest_photo_date",
      "setup_destination", "copy_with_progress", "verify_copy">>

\* C10: main calls its six steps in program order, each at most once; the
\* filesystem is written (destination created, file copied) only once mount
\* resolution, source discovery and date derivation have succeeded, and not
\* at all in a run that ends with a fatal error; verify_copy is called only
\* after copy_with_progress returned true and only without --no-verify.
C10_LinearOrder ==
    /\ [](/\ \E k \in 0..Len(MainOrder) : steps = SubSeq(MainOrder, 1, k)
          /\ error # "none" =>
                (dest_dir = <<>> /\ attempts = <<>> /\ Len(steps) <= 3)
          /\ (dest_dir # <<>> \/ attempts # <<>>) =>
                (/\ mount_point # <<>> /\ photo_dirs # <<>> /\ date_str # ""
                 /\ Len(steps) >= 4)
          /\ attempts # <<>> => Len(steps) >= 5
          /\ (\E i \in 1..Len(steps) : steps[i] = "verify_copy") =>
                (copy_success /\ ~args.no_verify /\ attempts = all_files))
    /\ [][fs' # fs =>
            (/\ Len(steps') >= 4
             /\ error' = "none"
             /\ mount_point # <<>> /\ photo_dirs # <<>> /\ date_str # "")]_vars

\* A run that made all six calls.
C10_Witness == pc = "done" /\ steps = MainOrder /\ exit_code = 0

(***************************************************************************)
(* find_mount_point over configurations and mount tables.                  *)
(***************************************************************************)
\* The sequences over S of length at most n.
SeqsUpTo(S, n) == UNION {[1..k -> S] : k \in 0..n}

\* Every list of at most MaxMountPatterns templates, every mount table,
\* two users and two labels; the card is the small one, at /media/alice.
MountScenarios ==
    {Scenario([DEFAULT_CONFIG EXCEPT !.mount_patterns = mp],
              [DefaultArgs(FALSE) EXCEPT !.user = u, !.label = l],
              m,
              (IF MediaAlice \in m
               THEN Card(MediaAlice, AllDirs, SmallSizes, FixedTimes, FALSE)
               ELSE <<>>) \o HomeContents("none")) :
        mp \in SeqsUpTo(MountTemplates, MaxMountPatterns),
        m \in SUBSET {MediaAlice, RunMediaAlice, MntCard, MediaBob},
        u \in {"alice", "bob"},
        l \in {"EOS_DIGITAL", "OTHER"}}

InitMount == InitOf(BaseScenarios \cup MountScenarios)

SpecMount == InitMount /\ [][Next]_vars

\* The i-th candidate: the i-th template with the user for its {user}
\* component and the label for its {label} component.
Candidate(i) ==
    LET t == config.mount_patterns[i]
    IN [k \in 1..Len(t) |->
           IF t[k] = <<"{user}">> THEN <<args.user>>
           ELSE IF t[k] = <<"{label}">> THEN <<args.label>>
           ELSE t[k]]

\* The positions of the templates whose candidate is an active mount point.
ActiveCandidates ==
    {i \in 1..Len(config.mount_patterns) : Candidate(i) \in mounts}

\* find_mount_point has just returned or raised.
MountResolved == Len(steps) = 1

\* C6: find_mount_point returns the candidate of the first template, in
\* list order, whose candidate is an active mount point, and raises exactly
\* when no candidate is one.
C6_FirstMountWins ==
    MountResolved =>
        IF ActiveCandidates = {}
        THEN /\ error = "MountNotFound"
             /\ mount_point = <<>>
             /\ pc \in {"except", "done"}
        ELSE /\ error = "none"
             /\ pc = "find_dirs"
             /\ \E i \in ActiveCandidates :
                   /\ \A j \in ActiveCandidates : i <= j
                   /\ mount_point = Candidate(i)

\* Two templates resolve to two active mount points; the first one won.
C6_Witness ==
    /\ MountResolved
    /\ \E i, j \in ActiveCandidates :
          /\ i < j
          /\ Candidate(i) # Candidate(j)
          /\ mount_point = Candidate(i)

(***************************************************************************)
(* find_photo_directories over patterns and card layouts.                  *)
(***************************************************************************)
\* Every list of at most MaxSourcePatterns patterns; cards with and without
\* DCIM, its two photo directories, a hidden directory and a stray file, in
\* both listing orders.
DirsScenarios ==
    {Scenario([DEFAULT_CONFIG EXCEPT !.source_patterns = sp],
              DefaultArgs(FALSE), {MediaAlice},
              Card(MediaAlice, dirs,
                   [SmallSizes EXCEPT !["f6"] = stray], FixedTimes, rev)
              \o HomeContents("none")) :
        sp \in SeqsUpTo(SourcePatterns, MaxSourcePatterns),
        dirs \in {{}} \cup {{"dcim"} \cup d :
                               d \in SUBSET {"d100", "d101", "hidden"}},
        stray \in {-1, 1},
        rev \in BOOLEAN}

InitDirs == InitOf(BaseScenarios \cup DirsScenarios)

SpecDirs == InitDirs /\ [][Next]_vars

\* All glob matches, pattern after pattern.
GlobMatches ==
    Concat([i \in 1..Len(config.source_patterns) |->
               glob(fs, mount_point, config.source_patterns[i])])

\* find_photo_directories has just returned or raised.
DirsDiscovered == Len(steps) = 2

\* C7: find_photo_directories returns the glob matches that are directories,
\* in pattern order and then match order, never a regular file, and raises
\* exactly when there is none.
C7_OnlyDirectories ==
    DirsDiscovered =>
        LET expected == SelectSeq(GlobMatches,
                            LAMBDA p : \E i \in 1..Len(fs) :
                                fs[i].path = p /\ fs[i].kind = "dir")
        IN IF expected = <<>>
           THEN /\ error = "NoPhotoDirectories"
                /\ photo_dirs = <<>>
                /\ pc \in {"except", "done"}
           ELSE /\ error = "none"
                /\ pc = "get_date"
                /\ photo_dirs = expected
                /\ \A k \in 1..Len(photo_dirs) : \A i \in 1..Len(fs) :
                      fs[i].path = photo_dirs[k] => fs[i].kind # "file"

\* The glob matched two directories and a stray file; the two directories
\* were returned.
C7_Witness ==
    /\ DirsDiscovered
    /\ Len(photo_dirs) = 2
    /\ photo_dirs[1] # photo_dirs[2]
    /\ \E k \in 1..Len(GlobMatches) :
          /\ entry(fs, GlobMatches[k]).kind = "file"
          /\ \A j \in 1..Len(photo_dirs) : photo_dirs[j] # GlobMatches[k]

(***************************************************************************)
(* get_earliest_photo_date over timestamps and extension lists.            *)
(***************************************************************************)
\* The timestamps of the photos a.j and b.J of 100CANON and a.j of 101CANON
\* range over 0..MaxTime, each photo there or not; the notes n.t are of time
\* 0 when there; the extensions are configured in lower or in upper case.
DateScenarios ==
    {Scenario([DEFAULT_CONFIG EXCEPT !.photo_extensions = ext],
              DefaultArgs(FALSE), {MediaAlice},
              Card(MediaAlice, AllDirs,
                   [id \in FileSlots |->
                       CASE id \in {"f1", "f2", "f4"} ->
                                IF t[id] >= 0 THEN 1 ELSE -1
                         [] id = "f5" -> notes
                         [] OTHER -> -1],
                   [id \in FileSlots |->
                       IF id \in {"f1", "f2", "f4"} /\ t[id] >= 0
                       THEN t[id] ELSE 0],
                   rev)
              \o HomeContents("none")) :
        ext \in {DEFAULT_CONFIG.photo_extensions, << <<".", "J">> >>},
        t \in [{"f1", "f2", "f4"} -> -1..MaxTime],
        notes \in {-1, 1},
        rev \in BOOLEAN}

InitDate == InitOf(BaseScenarios \cup DateScenarios)

SpecDate == InitDate /\ [][Next]_vars

\* The matching files below the photo directories.
Photos == UNION {PhotosBelow(photo_dirs[k]) : k \in 1..Len(photo_dirs)}

\* The calendar days, as strftime("%Y%m%d") writes them.
DayNames == <<"20240101", "20240102", "20240103", "20240104", "20240105",
              "20240106", "20240107", "20240108">>

\* The date of a timestamp.
DateOf(ts) ==
    DayNames[1 + CHOOSE d \in 0..ts :
                     d * TicksPerDay <= ts /\ ts < (d + 1) * TicksPerDay]

\* get_earliest_photo_date has just returned or raised.
DateDerived == Len(steps) = 3

\* C8: get_earliest_photo_date returns the date of the smallest
\* last-modified timestamp of the matching files below the directories,
\* whatever the other files' timestamps, and raises exactly when there is
\* no matching file.
C8_EarliestDate ==
    DateDerived =>
        IF Photos = {}
        THEN /\ error = "NoDatedFiles"
             /\ date_str = ""
             /\ pc \in {"except", "done"}
        ELSE /\ error = "none"
             /\ pc = "setup"
             /\ \E i \in Photos :
                   /\ \A j \in Photos : fs[i].mtime <= fs[j].mtime
                   /\ date_str = DateOf(fs[i].mtime)

\* Photos of two different days, one of them named in upper case, and an
\* older file of another extension; the date is the earlier photo's.
C8_Witness ==
    /\ DateDerived
    /\ \E i, j \in Photos :
          /\ DateOf(fs[i].mtime) # DateOf(fs[j].mtime)
          /\ \A k \in Photos : fs[i].mtime <= fs[k].mtime
          /\ date_str = DateOf(fs[i].mtime)
          /\ basename(fs[j].path) # lower(basename(fs[j].path))
          /\ \E n \in 1..Len(fs) :
                /\ fs[n].kind = "file"
                /\ n \notin Photos
                /\ IsPrefix(mount_point, fs[n].path)
                /\ DateOf(fs[n].mtime) # date_str
                /\ fs[n].mtime < fs[i].mtime

====
